---- MODULE Spec2Model ----
(***************************************************************************)
(* MCAPVisualizer (src/main.py): parse_mcap reads the messages of an MCAP  *)
(* log into odometry / timestamps / tracked_objects / robot_extents, and   *)
(* update_animation(frame, ax) positions the matplotlib artists of one     *)
(* frame.                                                                  *)
(*                                                                         *)
(* Units.  Coordinates and extents of the inputs are integers (metres).    *)
(* A patch corner x - extent/2 is kept in half metres (2*x - extent), the  *)
(* label position (a + b)/2 likewise (a + b); angles theta*180/3.14 are    *)
(* kept in thousandths of a degree; the label text '%.2f' is kept as the   *)
(* number of hundredths it prints.                                         *)
(***************************************************************************)
EXTENDS Integers, Sequences, FiniteSets, TLC

VARIABLES
    pc,               \* "parsing" | "parsed" | "aborted": where the run of parse_mcap is
    raised,           \* exception that ended parse_mcap, "none" while there is none
    topic,            \* channel.topic of the message that raised, "none" otherwise
    seen,             \* messages read so far, per topic that is appended to a list
    odometry,         \* self.odometry
    tracked_objects,  \* self.tracked_objects
    robot_extents,    \* self.robot_extents
    timestamps,       \* self.timestamps
    robot,            \* self.robot
    objects,          \* self.objects
    line,             \* self.line
    distance_text,    \* self.distance_text
    ax,               \* the axes handed to update_animation
    calls,            \* update_animation calls made
    inits,            \* initialize_animation calls made
    lastFrame,        \* frame argument of the last update_animation call
    outcome,          \* how that call ended: "ok" or the exception it raised
    query,            \* find_nearest_object: (x, y)
    points,           \* find_nearest_object: points
    nearest           \* find_nearest_object: the value returned

vars == <<pc, raised, topic, seen, odometry, tracked_objects, robot_extents,
          timestamps, robot, objects, line, distance_text, ax, calls, inits,
          lastFrame, outcome, query, points, nearest>>

parsed == <<odometry, tracked_objects, robot_extents, timestamps>>
artists == <<robot, objects, line, distance_text>>
fnVars == <<query, points, nearest>>

----------------------------------------------------------------------------
(* Bounds of the model.                                                    *)

MaxOdom == 2
MaxTracked == 2
MaxCalls == 3
MaxPts == 3

----------------------------------------------------------------------------
(* Values.                                                                 *)

\* Python's None (no list, line or text of the model is empty).
None == <<>>

\* An attribute that was never assigned (self.robot, self.objects before
\* initialize_animation): reading it raises AttributeError.
Missing == [missing |-> TRUE]

\* The value of self.objects once assigned: the list of patches.
List(items) == [items |-> items]

Recognized == {"odometry", "tracked_objects", "robot_extents"}

\* The topics whose messages are appended to a list.
Appended == {"odometry", "tracked_objects"}

\* message.data that json.loads(message.data.decode()) cannot decode.
NotJson == [json |-> FALSE]

Json(value) == [json |-> TRUE, value |-> value]

Message(t, data, time) == [topic |-> t, data |-> data, publish_time |-> time]

ObstacleA == [pose |-> [x |-> 1, y |-> 0, theta |-> 0], extents |-> [x |-> 1, y |-> 1]]
ObstacleB == [pose |-> [x |-> -1, y |-> 0, theta |-> 1], extents |-> [x |-> 2, y |-> 1]]

\* The "objects" lists the logs of the model carry.
ObjectLists == {<<>>, <<ObstacleA>>, <<ObstacleB>>, <<ObstacleA, ObstacleB>>}

OdometryMessages ==
    { Message("odometry", Json([x |-> 0, y |-> 0, theta |-> 0]), 120),
      Message("odometry", Json([x |-> -1, y |-> 1, theta |-> 1]), 260),
      Message("odometry", Json([x |-> 0, y |-> 0]), 120),
      Message("odometry", NotJson, 120) }

TrackedMessages ==
    { Message("tracked_objects", Json([objects |-> l]), 130) : l \in ObjectLists }
    \cup
    { Message("tracked_objects", Json([objects |-> <<[pose |-> [x |-> 1, y |-> 0, theta |-> 0]]>>]), 130),
      Message("tracked_objects", Json([frame |-> 1]), 130) }

ExtentsMessages ==
    { Message("robot_extents", Json([x |-> 2, y |-> 1]), 100),
      Message("robot_extents", Json([x |-> 2]), 100) }

OtherMessages ==
    { Message("camera", Json([width |-> 1]), 110),
      Message("camera", NotJson, 110) }

Messages == OdometryMessages \cup TrackedMessages \cup ExtentsMessages \cup OtherMessages

----------------------------------------------------------------------------
(* parse_mcap                                                              *)

HasKeys(data, keys) == keys \subseteq DOMAIN data

\* round(message.publish_time*10e-6, 3), in thousandths (10e-6 is 1e-5, so
\* this is publish_time/100 rounded to the nearest integer; the publish
\* times of the model are not half way between two thousandths).
Timestamp(publish_time) == (publish_time + 50) \div 100

AppendOdometry(od, data) == Append(od, <<data.x, data.y, data.theta>>)

AppendTimestampDistinct(ts, publish_time) ==
    IF \E i \in 1..Len(ts) : ts[i] = Timestamp(publish_time)
    THEN ts
    ELSE Append(ts, Timestamp(publish_time))

AppendTimestamp(ts, publish_time) == Append(ts, Timestamp(publish_time))

\* Every field the loop over data["objects"] reads is there.
ObjectComplete(obj) ==
    /\ HasKeys(obj, {"pose", "extents"})
    /\ HasKeys(obj.pose, {"x", "y", "theta"})
    /\ HasKeys(obj.extents, {"x", "y"})

Obstacle(obj) ==
    [pose |-> <<obj.pose.x, obj.pose.y, obj.pose.theta>>,
     extents |-> <<obj.extents.x, obj.extents.y>>]

Obstacles(objs) == [i \in 1..Len(objs) |-> Obstacle(objs[i])]

\* The exception the loop body raises on `message`, "none" if it raises none.
\* json.loads runs before the topic is looked at.
Raises(message) ==
    IF ~message.data.json THEN "JSONDecodeError"
    ELSE LET data == message.data.value IN
         IF message.topic = "odometry"
         THEN IF HasKeys(data, {"x", "y", "theta"}) THEN "none" ELSE "KeyError"
         ELSE IF message.topic = "tracked_objects"
         THEN IF /\ HasKeys(data, {"objects"})
                 /\ \A i \in 1..Len(data.objects) : ObjectComplete(data.objects[i])
              THEN "none" ELSE "KeyError"
         ELSE IF message.topic = "robot_extents"
         THEN IF HasKeys(data, {"x", "y"}) THEN "none" ELSE "KeyError"
         ELSE "none"

\* What the model lets the reader yield next: at most MaxOdom odometry and
\* MaxTracked tracked_objects messages are appended.
Yields(message) ==
    /\ (message.topic = "odometry" /\ Raises(message) = "none") => Len(odometry) < MaxOdom
    /\ (message.topic = "tracked_objects" /\ Raises(message) = "none") => Len(tracked_objects) < MaxTracked

\* One iteration of `for schema, channel, message in reader.iter_messages()`.
ParseMessage(message) ==
    /\ seen' = IF message.topic \in Appended
               THEN [seen EXCEPT ![message.topic] = @ + 1]
               ELSE seen
    /\ IF Raises(message) # "none"
       THEN /\ pc' = "aborted"
            /\ raised' = Raises(message)
            /\ topic' = message.topic
            /\ UNCHANGED parsed
       ELSE /\ UNCHANGED <<pc, raised, topic>>
            /\ LET data == message.data.value IN
               IF message.topic = "odometry"
               THEN /\ odometry' = AppendOdometry(odometry, data)
                    /\ timestamps' = AppendTimestamp(timestamps, message.publish_time)
                    /\ UNCHANGED <<tracked_objects, robot_extents>>
               ELSE IF message.topic = "tracked_objects"
               THEN /\ tracked_objects' = Append(tracked_objects, Obstacles(data.objects))
                    /\ UNCHANGED <<odometry, timestamps, robot_extents>>
               ELSE IF message.topic = "robot_extents"
               THEN /\ robot_extents' = <<data.x, data.y>>
                    /\ UNCHANGED <<odometry, timestamps, tracked_objects>>
               ELSE UNCHANGED parsed

ParseMcapStep ==
    /\ pc = "parsing"
    /\ \E message \in Messages :
          /\ Yields(message)
          /\ ParseMessage(message)
    /\ UNCHANGED <<artists, ax, calls, inits, lastFrame, outcome, fnVars>>

\* iter_messages is exhausted: parse_mcap returns.
ParseMcapEnd ==
    /\ pc = "parsing"
    /\ pc' = "parsed"
    /\ UNCHANGED <<raised, topic, seen, parsed, artists, ax, calls, inits,
                   lastFrame, outcome, fnVars>>

----------------------------------------------------------------------------
(* find_nearest_object                                                     *)

Dist2(p, x, y) == (p[1] - x) * (p[1] - x) + (p[2] - y) * (p[2] - y)

\* The key of min: np.sqrt((p[0] - x)**2 + (p[1] - y)**2).  The squared
\* distances of the model are small exact integers, on which np.sqrt is
\* strictly increasing, so two keys compare as their squared distances do.
Key(p, x, y) == Dist2(p, x, y)

\* A scan that keeps the later of two elements with equal keys.
RECURSIVE MinLast(_, _, _, _)
MinLast(best, rest, x, y) ==
    IF rest = <<>> THEN best
    ELSE IF Key(Head(rest), x, y) <= Key(best, x, y)
         THEN MinLast(Head(rest), Tail(rest), x, y)
         ELSE MinLast(best, Tail(rest), x, y)

\* Python's min(iterable, key=...): one pass that replaces the element kept
\* only by an element whose key is strictly smaller.
RECURSIVE Min(_, _, _, _)
Min(best, rest, x, y) ==
    IF rest = <<>> THEN best
    ELSE IF Key(Head(rest), x, y) < Key(best, x, y)
         THEN Min(Head(rest), Tail(rest), x, y)
         ELSE Min(best, Tail(rest), x, y)

find_nearest_last(x, y, pts) ==
    IF pts = <<>>
    THEN [raised |-> "ValueError"]
    ELSE [raised |-> "none", value |-> MinLast(Head(pts), Tail(pts), x, y)]

\* min() of an empty sequence raises ValueError.
find_nearest_object(x, y, pts) ==
    IF pts = <<>>
    THEN [raised |-> "ValueError"]
    ELSE [raised |-> "none", value |-> Min(Head(pts), Tail(pts), x, y)]

\* A call of find_nearest_object on the arguments drawn by InitNearest.
FindNearest ==
    /\ nearest = None
    /\ nearest' = find_nearest_object(query[1], query[2], points)
    /\ UNCHANGED <<pc, raised, topic, seen, parsed, artists, ax, calls, inits,
                   lastFrame, outcome, query, points>>

----------------------------------------------------------------------------
(* Arithmetic of update_animation                                          *)

\* Largest r in lo..hi with r*r <= n.
RECURSIVE SqrtSearch(_, _, _)
SqrtSearch(lo, hi, n) ==
    IF lo = hi THEN lo
    ELSE LET mid == (lo + hi + 1) \div 2 IN
         IF mid * mid <= n THEN SqrtSearch(mid, hi, n) ELSE SqrtSearch(lo, mid - 1, n)

ISqrt(n) == SqrtSearch(0, IF n < 46340 THEN n ELSE 46340, n)

\* f'{distance:.2f}' of distance = np.sqrt(d2): the hundredths printed,
\* round(100*sqrt(d2)) = floor((sqrt(40000*d2) + 1) / 2).
FormatDistance(d2) == <<(ISqrt(40000 * d2) + 1) \div 2>>

\* theta*180/3.14, in thousandths of a degree.
Degrees(theta) == (theta * 180000 * 100) \div 314

\* x - extent/2, in half metres.
Corner(x, extent) == 2 * x - extent

\* patches.Rectangle(xy=(0, 0), width, height, angle=0, ...).
Rectangle(width, height) ==
    [xy |-> <<0, 0>>, angle |-> 0, width |-> width, height |-> height]

SetXYRelative(patch, xy) ==
    [patch EXCEPT !.xy = <<@[1] + xy[1], @[2] + xy[2]>>]

SetXY(patch, xy) == [patch EXCEPT !.xy = xy]

SetAngle(patch, angle) == [patch EXCEPT !.angle = angle]

SetSize(patch, width, height) == [patch EXCEPT !.width = width, !.height = height]

\* Python indexing seq[i]: i in -len..len-1, a negative i counts from the end.
InRange(seq, i) == -Len(seq) <= i /\ i < Len(seq)

Item(seq, i) == IF i >= 0 THEN seq[i + 1] ELSE seq[Len(seq) + i + 1]

ExtentsOrZero(re) ==
    IF re = None
    THEN [raised |-> "none", x |-> 0, y |-> 0]
    ELSE [raised |-> "none", x |-> re[1], y |-> re[2]]

\* Reading the two entries of self.robot_extents (self.robot_extents[0],
\* [1] in initialize_animation, the unpacking in update_animation): a
\* TypeError while it is None.
Extents(re) ==
    IF re = None
    THEN [raised |-> "TypeError", x |-> 0, y |-> 0]
    ELSE [raised |-> "none", x |-> re[1], y |-> re[2]]

----------------------------------------------------------------------------
(* update_animation.  The steps of one call thread a record s: the artists *)
(* and axes as the call has left them so far, the call's locals, and the   *)
(* exception raised, if any; nothing after a raise is executed.            *)

Entry ==
    [robot |-> robot, objects |-> objects, line |-> line,
     distance_text |-> distance_text, ax |-> ax, raised |-> "none",
     robot_x |-> 0, robot_y |-> 0, object_positions |-> <<>>]

\* Lines 137-174.
initialize_animation(s) ==
    LET cleared == [s EXCEPT !.ax = [xlim |-> <<-6, 6>>, ylim |-> <<-6, 6>>, points |-> <<>>],
                             !.line = [xdata |-> <<>>, ydata |-> <<>>],
                             !.distance_text = [position |-> <<0, 0>>, text |-> <<>>]]
        e == Extents(robot_extents)
    IN  IF e.raised # "none"
        THEN [cleared EXCEPT !.raised = e.raised]
        ELSE [cleared EXCEPT
                 !.robot = Rectangle(e.x, e.y),
                 !.objects = List([k \in 1..Len(tracked_objects) |-> Rectangle(0, 0)])]

NeedsInitFirstOnly(frame) == frame = 0 /\ robot = Missing

\* Line 88.
NeedsInit(frame) == frame = 0

\* Lines 92-97.
UpdateRobot(s, frame) ==
    IF ~InRange(odometry, frame) THEN [s EXCEPT !.raised = "IndexError"]
    ELSE LET pose == Item(odometry, frame)
             e == Extents(robot_extents)
         IN  IF e.raised # "none" THEN [s EXCEPT !.raised = e.raised]
             ELSE IF s.robot = Missing THEN [s EXCEPT !.raised = "AttributeError"]
             ELSE [s EXCEPT
                      !.robot = SetAngle(SetXY(@, <<Corner(pose[1], e.x), Corner(pose[2], e.y)>>),
                                         Degrees(pose[3])),
                      !.ax = [@ EXCEPT !.points = Append(@, <<pose[1], pose[2]>>)],
                      !.robot_x = pose[1],
                      !.robot_y = pose[2]]

\* One pass of the loop body, lines 103-111, on the patch paired with obj.
UpdatePatch(patch, obj) ==
    SetSize(SetAngle(SetXY(patch, <<Corner(obj.pose[1], obj.extents[1]),
                                    Corner(obj.pose[2], obj.extents[2])>>),
                     Degrees(obj.pose[3])),
            obj.extents[1], obj.extents[2])

\* Lines 100-111: zip stops at the shorter of the frame's obstacles and the
\* patches.
UpdateObjects(s, frame) ==
    IF ~InRange(tracked_objects, frame) THEN [s EXCEPT !.raised = "IndexError"]
    ELSE IF s.objects = Missing THEN [s EXCEPT !.raised = "AttributeError"]
    ELSE LET objs == Item(tracked_objects, frame)
             patches == s.objects.items
             n == IF Len(objs) <= Len(patches) THEN Len(objs) ELSE Len(patches)
         IN  [s EXCEPT
                 !.objects = List([k \in 1..Len(patches) |->
                                      IF k <= n THEN UpdatePatch(patches[k], objs[k])
                                      ELSE patches[k]]),
                 !.object_positions = [k \in 1..n |-> <<objs[k].pose[1], objs[k].pose[2]>>]]

\* Lines 114-124.
UpdateNearest(s) ==
    LET found == find_nearest_object(s.robot_x, s.robot_y, s.object_positions) IN
    IF found.raised # "none" THEN [s EXCEPT !.raised = found.raised]
    ELSE IF s.line = None \/ s.distance_text = None
    THEN [s EXCEPT !.raised = "AttributeError"]
    ELSE LET p == found.value IN
         [s EXCEPT
             !.line = [xdata |-> <<s.robot_x, p[1]>>, ydata |-> <<s.robot_y, p[2]>>],
             !.distance_text = [position |-> <<p[1] + s.robot_x, p[2] + s.robot_y>>,
                                text |-> FormatDistance(Dist2(p, s.robot_x, s.robot_y))]]

Then(s, next) == IF s.raised # "none" THEN s ELSE next

\* The frame arguments the model calls update_animation with: -1 (Python's
\* last entry, out of range only for an empty list), every index of a list
\* of MaxOdom entries, and one past its end.
Frames == -1..MaxOdom

update_animation(frame) ==
    /\ pc = "parsed"
    /\ calls < MaxCalls
    /\ LET a == IF NeedsInit(frame) THEN initialize_animation(Entry) ELSE Entry
           b == Then(a, UpdateRobot(a, frame))
           c == Then(b, UpdateObjects(b, frame))
           d == Then(c, UpdateNearest(c))
       IN  /\ robot' = d.robot
           /\ objects' = d.objects
           /\ line' = d.line
           /\ distance_text' = d.distance_text
           /\ ax' = d.ax
           /\ outcome' = IF d.raised = "none" THEN "ok" ELSE d.raised
    /\ inits' = IF NeedsInit(frame) THEN inits + 1 ELSE inits
    /\ calls' = calls + 1
    /\ lastFrame' = frame
    /\ UNCHANGED <<pc, raised, topic, seen, parsed, fnVars>>

UpdateAnimation == \E frame \in Frames : update_animation(frame)

----------------------------------------------------------------------------
(* Specifications                                                          *)

\* The state __init__ leaves, before parse_mcap.
Constructed ==
    /\ pc = "parsing"
    /\ raised = "none"
    /\ topic = "none"
    /\ seen = [t \in Appended |-> 0]
    /\ odometry = <<>>
    /\ tracked_objects = <<>>
    /\ robot_extents = None
    /\ timestamps = <<>>
    /\ robot = Missing
    /\ objects = Missing
    /\ line = None
    /\ distance_text = None
    /\ ax = [xlim |-> <<0, 1>>, ylim |-> <<0, 1>>, points |-> <<>>]
    /\ calls = 0
    /\ inits = 0
    /\ lastFrame = 0
    /\ outcome = "none"

Init ==
    /\ Constructed
    /\ query = <<0, 0>>
    /\ points = <<>>
    /\ nearest = None

Next == ParseMcapStep \/ ParseMcapEnd \/ UpdateAnimation

Spec == Init /\ [][Next]_vars

\* find_nearest_object on every query and every list of at most MaxPts
\* points with coordinates in Coord.
Coord == -1..1

PointLists == UNION { [1..n -> Coord \X Coord] : n \in 0..MaxPts }

InitNearest ==
    /\ Constructed
    /\ query \in Coord \X Coord
    /\ points \in PointLists
    /\ nearest = None

NextNearest == FindNearest

SpecNearest == InitNearest /\ [][NextNearest]_vars

----------------------------------------------------------------------------
(* Properties                                                              *)

\* The frame of the last call is an index of both lists the call reads.
LastFrameValid ==
    /\ calls >= 1
    /\ 0 <= lastFrame
    /\ lastFrame < Len(timestamps)
    /\ lastFrame < Len(tracked_objects)

\* C1, as stated: when parse_mcap has returned, timestamps, odometry and
\* tracked_objects have the same length, whatever messages the log held.
C1_EqualLengths ==
    pc = "parsed" =>
        /\ Len(timestamps) = Len(odometry)
        /\ Len(odometry) = Len(tracked_objects)

\* C1, amended: when parse_mcap has returned, timestamps and odometry both
\* hold one entry per odometry message of the log and tracked_objects one
\* entry per tracked_objects message, so the three lengths are equal exactly
\* when the log held as many odometry as tracked_objects messages.
C1_LengthsFollowLog ==
    pc = "parsed" =>
        /\ Len(timestamps) = Len(odometry)
        /\ Len(odometry) = seen.odometry
        /\ Len(tracked_objects) = seen.tracked_objects

C1_Witness ==
    /\ pc = "parsed"
    /\ seen.odometry = 2
    /\ seen.tracked_objects = 1
    /\ Len(timestamps) = 2
    /\ Len(tracked_objects) = 1

\* C2: on a non-empty list find_nearest_object returns an element of the
\* list that no element is strictly nearer to the query than, and among the
\* elements at that least distance the one that comes first in the list; on
\* a one-element list it returns that element.
C2_NearestIsFirstMinimum ==
    (nearest # None /\ points # <<>>) =>
        /\ nearest.raised = "none"
        /\ LET x == query[1]
               y == query[2]
               IsMin(i) == \A j \in 1..Len(points) :
                              Dist2(points[i], x, y) <= Dist2(points[j], x, y)
               first == CHOOSE i \in 1..Len(points) :
                           IsMin(i) /\ \A j \in 1..(i - 1) : ~IsMin(j)
           IN  /\ \E i \in 1..Len(points) : points[i] = nearest.value
               /\ \A j \in 1..Len(points) :
                     Dist2(nearest.value, x, y) <= Dist2(points[j], x, y)
               /\ nearest.value = points[first]
               /\ Len(points) = 1 => nearest.value = points[1]

C2_Witness ==
    /\ nearest # None
    /\ Len(points) = 3
    /\ points[2] # points[3]
    /\ Dist2(points[2], query[1], query[2]) = Dist2(points[3], query[1], query[2])
    /\ Dist2(points[2], query[1], query[2]) < Dist2(points[1], query[1], query[2])
    /\ nearest.value = points[2]

C4_EmptyFrameReturns ==
    (/\ LastFrameValid
     /\ robot # Missing
     /\ tracked_objects[lastFrame + 1] = <<>>) => outcome = "ok"

\* C5: a call that repeats the frame of the call before it, a valid frame
\* with a non-empty obstacle list, leaves the robot patch, every obstacle
\* patch, the line and the label as that call left them, and ends as it did.
C5_RepeatedFrameIdempotent ==
    [][(/\ calls' = calls + 1
        /\ lastFrame' = lastFrame
        /\ LastFrameValid
        /\ tracked_objects[lastFrame + 1] # <<>>) =>
           /\ artists' = artists
           /\ outcome' = outcome]_vars

C5_Witness ==
    /\ calls = 3
    /\ inits = 1
    /\ lastFrame = 1
    /\ outcome = "ok"
    /\ Len(ax.points) = 3
    /\ ax.points[2] = ax.points[3]
    /\ tracked_objects[2] # <<>>

\* C6: a call whose frame is negative or at least len(timestamps) ends in
\* an error.
C6_OutsideRangeRaises ==
    (calls >= 1 /\ (lastFrame < 0 \/ lastFrame >= Len(timestamps))) => outcome # "ok"

\* C7: parse_mcap is never aborted by a message whose topic is none of
\* odometry, tracked_objects, robot_extents.
C7_OtherTopicNeverAborts == pc = "aborted" => topic \in Recognized

\* C8: with robot_extents still None, parse_mcap can return at the end of
\* the log; once it has, every update_animation call raises (the call for
\* frame 0 a TypeError), self.robot and self.objects are never assigned, no
\* point is drawn and the line and label, if made, stay as created.
C8_NoExtentsNeverReady ==
    /\ (pc = "parsing" /\ robot_extents = None) => ENABLED ParseMcapEnd
    /\ (pc = "parsed" /\ robot_extents = None) =>
          /\ calls >= 1 => outcome \notin {"ok", "none"}
          /\ (calls >= 1 /\ lastFrame = 0) => outcome = "TypeError"
          /\ robot = Missing
          /\ objects = Missing
          /\ ax.points = <<>>
          /\ line # None => line = [xdata |-> <<>>, ydata |-> <<>>]
          /\ distance_text # None => distance_text = [position |-> <<0, 0>>, text |-> <<>>]

C8_Witness ==
    /\ pc = "parsed"
    /\ robot_extents = None
    /\ Len(odometry) = 2
    /\ Len(tracked_objects) = 2
    /\ tracked_objects[2] # <<>>
    /\ calls = 2
    /\ inits = 1
    /\ lastFrame = 1
    /\ outcome = "TypeError"

\* C9: once a frame has been rendered, the patches made by
\* initialize_animation are at least as many as the obstacles of the frame
\* that has most.
C9_PoolHoldsLargestFrame ==
    (LastFrameValid /\ outcome = "ok") =>
        \A i \in 1..Len(tracked_objects) : Len(tracked_objects[i]) <= Len(objects.items)

\* C10: after a call for frame i has returned, every patch at a position
\* past the obstacles of frame i has width and height 0.
C10_UnusedSlotsHidden ==
    (LastFrameValid /\ outcome = "ok") =>
        \A k \in 1..Len(objects.items) :
            k > Len(tracked_objects[lastFrame + 1]) =>
                objects.items[k].width = 0 /\ objects.items[k].height = 0

====
